---- MODULE Spec2Model ----
(***************************************************************************)
(* Model of the PulsePoint triage services.                                *)
(*                                                                         *)
(*   src/app.py           MedicalTriageAgent: the per-turn pipeline        *)
(*                        classify -> council -> confirmation rule -> SMS  *)
(*   src/room_manager.py  the session registry and the Twilio alert fan-out*)
(*   src/agent_dispatcher.py  AgentDispatcher: one agent process per room  *)
(*   src/agent.py         MedicalNoteAgent: the transcription buffer and   *)
(*                        the note generations                             *)
(*                                                                         *)
(* Every `await` of a handler is a point where other coroutines of the     *)
(* same event loop may run, so a handler is one action per stretch of code *)
(* between two awaits.  Confidences are kept in hundredths (0.85 is 85)    *)
(* and compared exactly.                                                   *)
(***************************************************************************)
EXTENDS Integers, Sequences, FiniteSets, TLC

VARIABLES
    \* ---- src/app.py: MedicalTriageAgent ----
    session_state,   \* self.session_state, a SessionState
    pc,              \* where on_user_turn_completed is suspended
    classification,  \* local `classification` of the turn in flight
    council_response,\* local `council_response` of the turn in flight
    returned,        \* what the last on_user_turn_completed call returned
    epoch,           \* identity of the SessionState object now in self.session_state
    turn,            \* record of what the turn in flight (or the last one) did
    turns_started,   \* number of non-blank utterances received so far
    sms_log,         \* the POSTs made to the SMS service, in order
    completed,       \* non-blank turns that returned since self.session_state was created
    tool_call,       \* the last call of set_patient_info or update_image
    \* ---- the confirmation rule applied to one input ----
    dec_in,          \* a council response handed to _council_confirms_emergency
    dec_out,         \* its result
    \* ---- normalize_phone applied to one input ----
    phone_in,        \* a phone number handed to normalize_phone
    phone_out,       \* its result
    \* ---- src/room_manager.py ----
    active_sessions, \* room_name -> session dict
    alerts_sent,     \* room_name -> list of alert records
    alerts_triggered,\* room_name -> whether an emergency-alert call has run its loop
    rm_pending,      \* requests suspended at an await
    twilio_log,      \* every attempt made on the Twilio client, in order
    rm_response,     \* the response of the last completed request
    rm_requests,     \* number of requests received so far
    rm_request,      \* the request that rm_response answers
    env,             \* the process environment
    \* ---- src/agent_dispatcher.py: AgentDispatcher ----
    active_agents,   \* self.active_agents: room_name -> process
    processes,       \* the processes spawned so far: their room and whether they run
    monitor_tasks,   \* the _monitor_agent tasks suspended in communicate()
    stop_calls,      \* the stop_agent_for_room calls suspended in process.wait()
    stops_started,   \* number of stop_agent_for_room calls so far
    disp_return,     \* what the last spawn or stop call returned
    \* ---- src/agent.py: MedicalNoteAgent ----
    transcription_buffer, \* self.transcription_buffer, the entries by their number
    entries_heard,   \* number of transcriptions handled so far
    notes_tasks,     \* the _generate_notes tasks created and not finished
    tasks_created,   \* number of _generate_notes tasks created so far
    notes,           \* self.notes, as the transcript it was generated from
    transcribed      \* the entries that were in the transcript of some generation

agentVars == <<session_state, pc, classification, council_response, returned,
               epoch, turn, turns_started, sms_log, completed>>
decVars == <<dec_in, dec_out>>
dispVars == <<active_agents, processes, monitor_tasks, stop_calls, stops_started,
              disp_return>>
noteVars == <<transcription_buffer, entries_heard, notes_tasks, tasks_created,
              notes, transcribed>>
auxVars == <<decVars, phone_in, phone_out, tool_call, dispVars, noteVars>>
rmVars == <<active_sessions, alerts_sent, alerts_triggered, rm_pending,
            twilio_log, rm_response, rm_requests, rm_request, env>>
vars == <<agentVars, auxVars, rmVars>>

----------------------------------------------------------------------------
(* Bounds *)

MaxTurns == 2       \* utterances received by the agent in one run
MaxSessions == 1    \* agent end_session calls in one run
MaxVoters == 3      \* council voters in an input of the confirmation rule

----------------------------------------------------------------------------
(* Python values *)

\* None in a text-typed slot
PyNone == "<None>"

\* dict.get(key, default) on a dict modelled as a record whose domain is the
\* set of keys present
Get(d, k, default) == IF k \in DOMAIN d THEN d[k] ELSE default

\* The empty dict
EmptyDict == [k \in {} |-> PyNone]

\* A 200 body whose JSON is not an object (a list, a string, null): every
\* .get on it raises AttributeError.
NotADict == [not_a_dict |-> TRUE]

IsDict(d) == "not_a_dict" \notin DOMAIN d

----------------------------------------------------------------------------
(* src/app.py: configuration and the texts the agent speaks *)

\* Variant: UNKNOWN counted as emergency-grade
emergency_categories_wide == {"CRITICAL", "EMERGENCY", "UNKNOWN"}

emergency_categories == {"CRITICAL", "EMERGENCY"}

TXT_CLASSIFY_FALLBACK == "Could you describe your symptoms?"
TXT_NORMAL_DEFAULT == "I understand. Can you tell me more about your symptoms?"
TXT_CONFIRM_DEFAULT == "This is an emergency. Help is being dispatched. Please stay calm."
TXT_DOWNGRADE_DEFAULT == "After careful review, your symptoms need attention but may not be immediately critical."
TXT_FAILOPEN == "Emergency services have been notified. Please stay calm."
TXT_ERROR == "I'm having trouble processing that. Could you please repeat?"

\* Texts a backend may put in "response"
TXT_CLASSIFIER == "classifier reply"
TXT_COUNCIL == "council reply"

\* avg_confidence > 0.85, in hundredths
CONFIDENCE_CUTOFF == 85

\* SessionState(): the dataclass defaults
SessionState ==
    [patient_id |-> PyNone,
     location |-> PyNone,
     conversation_history |-> <<>>,
     current_image |-> PyNone,
     is_emergency |-> FALSE,
     emergency_confirmed |-> FALSE,
     council_response |-> <<>>]     \* <<>> is None, <<d>> is the dict d

----------------------------------------------------------------------------
(* src/app.py: the backends' answers *)

\* Bodies the classification backend may answer with status 200
ClassifierBodies ==
    {[category |-> "NORMAL", response |-> TXT_CLASSIFIER],
     [category |-> "NORMAL"],
     [category |-> "UNKNOWN", response |-> ""],
     [category |-> "CRITICAL", response |-> TXT_CLASSIFIER],
     [category |-> "EMERGENCY"],
     EmptyDict}

Vote(u, c) == [urgency |-> u, confidence |-> c]

\* Bodies the council backend may answer with status 200.  council_votes is
\* the list of the vote dicts (the values of the voter -> vote mapping).
CouncilBodies ==
    {[response |-> TXT_COUNCIL, urgency |-> "HIGH", confidence |-> 90,
      council_votes |-> <<Vote("HIGH", 90), Vote("HIGH", 90), Vote("LOW", 50)>>],
     [response |-> TXT_COUNCIL, urgency |-> "HIGH", confidence |-> 45,
      council_votes |-> <<Vote("LOW", 50), Vote("LOW", 40)>>],
     [response |-> TXT_COUNCIL, urgency |-> "LOW", confidence |-> 90,
      council_votes |-> <<Vote("LOW", 90), Vote("LOW", 90), Vote("HIGH", 90)>>],
     [urgency |-> "HIGH"],
     [urgency |-> "LOW", confidence |-> 150,
      council_votes |-> <<Vote("LOW", 150), Vote("LOW", 40)>>],
     [response |-> "", urgency |-> "LOW", council_votes |-> <<>>]}

\* How one HTTP exchange with a backend ends: status 200 with a JSON object,
\* status 200 with JSON that is not an object, another status, or an
\* exception inside the `async with` (transport error, timeout, body that is
\* not JSON).
ClassifyOutcomes ==
    {[kind |-> "ok", body |-> b] : b \in ClassifierBodies}
    \cup {[kind |-> k, body |-> EmptyDict] : k \in {"malformed", "bad_status", "exception"}}

CouncilOutcomes ==
    {[kind |-> "ok", body |-> b] : b \in CouncilBodies}
    \cup {[kind |-> k, body |-> EmptyDict] : k \in {"malformed", "bad_status", "exception"}}

SmsOutcomes == {"ok", "bad_status", "exception"}

\* Variant: a failed classification escalates
_classify_message_fail_open(o) ==
    CASE o.kind = "ok" -> o.body
      [] o.kind = "malformed" -> NotADict
      [] OTHER -> [category |-> "CRITICAL", response |-> TXT_CLASSIFY_FALLBACK]

\* _classify_message: what it returns for an outcome of the POST
_classify_message(o) ==
    CASE o.kind = "ok" -> o.body
      [] o.kind = "malformed" -> NotADict
      [] OTHER -> [category |-> "UNKNOWN", response |-> TXT_CLASSIFY_FALLBACK]

\* Variant: a failed council call does not confirm
_invoke_council_fail_closed(o) ==
    CASE o.kind = "ok" -> o.body
      [] o.kind = "malformed" -> NotADict
      [] OTHER -> [response |-> TXT_FAILOPEN, urgency |-> "LOW", confidence |-> 0]

\* _invoke_council: what it returns for an outcome of the POST
_invoke_council(o) ==
    CASE o.kind = "ok" -> o.body
      [] o.kind = "malformed" -> NotADict
      [] OTHER -> [response |-> TXT_FAILOPEN, urgency |-> "HIGH", confidence |-> 80]

----------------------------------------------------------------------------
(* src/app.py: the confirmation rule *)

RECURSIVE SumConfidence(_)
\* sum(v.get("confidence", 0) for v in votes.values())
SumConfidence(votes) ==
    IF Len(votes) = 0 THEN 0
    ELSE Get(Head(votes), "confidence", 0) + SumConfidence(Tail(votes))

\* sum(1 for v in votes.values() if v.get("urgency") == "HIGH")
HighVotes(votes) ==
    Cardinality({i \in DOMAIN votes : Get(votes[i], "urgency", PyNone) = "HIGH"})

\* Variant: a tie counts as a majority
MajorityHigh_inclusive(high_votes, total_votes) == 2 * high_votes >= total_votes

\* high_votes > total_votes / 2, a true division
MajorityHigh(high_votes, total_votes) == 2 * high_votes > total_votes

\* sum / total_votes > 0.85, with the sum in hundredths
AvgAboveCutoff(sum, total_votes) == sum > CONFIDENCE_CUTOFF * total_votes

\* Variant: without votes, a high top-level confidence confirms too
_council_confirms_top_confidence(cr) ==
    LET votes == Get(cr, "council_votes", <<>>) IN
    IF Len(votes) = 0
    THEN Get(cr, "urgency", PyNone) = "HIGH" \/ Get(cr, "confidence", 0) > CONFIDENCE_CUTOFF
    ELSE IF 2 * HighVotes(votes) > Len(votes)
         THEN TRUE
         ELSE SumConfidence(votes) > CONFIDENCE_CUTOFF * Len(votes)

_council_confirms_emergency(cr) ==
    LET votes == Get(cr, "council_votes", <<>>) IN
    IF Len(votes) = 0
    THEN Get(cr, "urgency", PyNone) = "HIGH"
    ELSE IF MajorityHigh(HighVotes(votes), Len(votes))
         THEN TRUE
         ELSE AvgAboveCutoff(SumConfidence(votes), Len(votes))

----------------------------------------------------------------------------
(* src/app.py: on_user_turn_completed *)

NoTurn ==
    [session |-> 0, classify |-> "none", category |-> PyNone,
     council |-> "none", confirmed |-> "n/a", sms |-> "none",
     classify_calls |-> 0, council_calls |-> 0, sms_calls |-> 0,
     utterance |-> PyNone,        \* new_message
     payload |-> EmptyDict,       \* the local `payload`
     classifier_text |-> PyNone]  \* classification.get("response")

\* The text of the n-th utterance: a string that is not blank
Utterance(n) == "utterance " \o ToString(n)

\* bool(x) of a text-typed slot: None and "" are false
Truthy(x) == x \notin {PyNone, ""}

RECURSIVE formatted_history(_)
\* The loop of _build_llm_payload: a turn with a reply and a human text is
\* emitted with both, a turn with a human text only is emitted with the
\* placeholder "", a turn without a human text is skipped.
formatted_history(h) ==
    IF Len(h) = 0 THEN <<>>
    ELSE LET t == Head(h) IN
         (IF Truthy(t.assistant) /\ Truthy(t.human)
          THEN <<[assistant |-> t.assistant, human |-> t.human]>>
          ELSE IF Truthy(t.human)
          THEN <<[assistant |-> "", human |-> t.human]>>
          ELSE <<>>)
         \o formatted_history(Tail(h))

\* x or default
OrElse(x, default) == IF Truthy(x) THEN x ELSE default

\* Variant: the image key is always written
_build_llm_payload_always_image(st) ==
    [text |-> formatted_history(st.conversation_history),
     patient_id |-> OrElse(st.patient_id, "UNKNOWN"),
     location |-> OrElse(st.location, "UNKNOWN"),
     image |-> st.current_image]

\* _build_llm_payload: the formatted history, patient and location, and
\* the image key when current_image is set
_build_llm_payload(st) ==
    LET payload == [text |-> formatted_history(st.conversation_history),
                    patient_id |-> OrElse(st.patient_id, "UNKNOWN"),
                    location |-> OrElse(st.location, "UNKNOWN")]
    IN IF Truthy(st.current_image)
       THEN [k \in DOMAIN payload \cup {"image"} |->
                IF k = "image" THEN st.current_image ELSE payload[k]]
       ELSE payload

TXT_PENDING == "<pending>"

\* Variant: the reply is returned but not written to the history
FillReply_skips(st, response_text) == st

\* conversation_history[-1]["assistant"] = response_text, guarded by
\* `if self.session_state.conversation_history`
FillReply(st, response_text) ==
    LET h == st.conversation_history IN
    IF Len(h) = 0 THEN st
    ELSE [st EXCEPT !.conversation_history[Len(h)].assistant = response_text]

\* The tail of the try block: store the reply on the last turn, return it.
Respond(st, response_text) ==
    /\ session_state' = FillReply(st, response_text)
    /\ returned' = response_text
    /\ completed' = completed + 1
    /\ pc' = "idle"
    /\ classification' = EmptyDict
    /\ council_response' = EmptyDict

\* Variant: the exception leaves on_user_turn_completed
HandlerError_escapes(st) ==
    /\ session_state' = st
    /\ pc' = "raised"
    /\ UNCHANGED <<returned, classification, council_response, completed>>

\* except Exception: log, return the apology.  The history is not touched.
HandlerError(st) ==
    /\ session_state' = st
    /\ returned' = TXT_ERROR
    /\ completed' = completed + 1
    /\ pc' = "idle"
    /\ classification' = EmptyDict
    /\ council_response' = EmptyDict

\* The sms_payload of _send_emergency_sms, with the session the turn belongs
\* to and the session object current when the POST is made.
SmsPayload(cr) ==
    [patient_id |-> session_state.patient_id,
     location |-> session_state.location,
     urgency |-> Get(cr, "urgency", "HIGH"),
     assessment |-> Get(cr, "response", "Emergency detected"),
     confidence |-> Get(cr, "confidence", 90),
     turn_session |-> turn.session,
     posted_in |-> epoch]

\* `if not new_message.strip(): return None`
BlankTurn ==
    /\ pc = "idle"
    /\ returned' = PyNone
    /\ turn' = NoTurn
    /\ UNCHANGED <<session_state, pc, classification, council_response, epoch,
                   turns_started, sms_log, completed>>
    /\ UNCHANGED <<auxVars, rmVars>>

\* A non-blank utterance: append the open turn, build the payload, POST it
\* to the classifier and wait.
UserTurn ==
    /\ pc = "idle"
    /\ turns_started < MaxTurns
    /\ turns_started' = turns_started + 1
    /\ session_state' =
         [session_state EXCEPT !.conversation_history =
             Append(@, [human |-> Utterance(turns_started + 1),
                        assistant |-> PyNone])]
    /\ turn' = [NoTurn EXCEPT !.session = epoch, !.classify_calls = 1,
                              !.utterance = Utterance(turns_started + 1),
                              !.payload = _build_llm_payload(session_state')]
    /\ returned' = TXT_PENDING
    /\ pc' = "classify"
    /\ UNCHANGED <<classification, council_response, epoch, sms_log, completed>>
    /\ UNCHANGED <<auxVars, rmVars>>

\* The classifier's POST ends: branch on the category.
AfterClassifyStep(o) ==
    LET c == _classify_message(o)
        t == [turn EXCEPT !.classify = o.kind,
                          !.classifier_text = Get(c, "response", PyNone)]
    IN
    IF ~IsDict(c)
    THEN /\ HandlerError(session_state)
         /\ turn' = t
         /\ UNCHANGED sms_log
    ELSE IF Get(c, "category", PyNone) \in emergency_categories
    THEN /\ session_state' = [session_state EXCEPT !.is_emergency = TRUE]
         /\ classification' = c
         /\ pc' = "council"
         /\ turn' = [t EXCEPT !.category = Get(c, "category", PyNone),
                              !.council_calls = @ + 1]
         /\ UNCHANGED <<council_response, returned, sms_log, completed>>
    ELSE /\ Respond(session_state, Get(c, "response", TXT_NORMAL_DEFAULT))
         /\ turn' = [t EXCEPT !.category = Get(c, "category", PyNone)]
         /\ UNCHANGED sms_log

AfterClassify ==
    /\ pc = "classify"
    /\ \E o \in ClassifyOutcomes : AfterClassifyStep(o)
    /\ UNCHANGED <<epoch, turns_started>>
    /\ UNCHANGED <<auxVars, rmVars>>

\* The council's POST ends: store the result, apply the confirmation rule.
AfterCouncilStep(o) ==
    LET cr == _invoke_council(o)
        st == [session_state EXCEPT !.council_response = <<cr>>]
        t == [turn EXCEPT !.council = o.kind]
    IN
    IF ~IsDict(cr)
    THEN /\ HandlerError(st)
         /\ turn' = t
         /\ UNCHANGED sms_log
    ELSE IF _council_confirms_emergency(cr)
    THEN /\ session_state' = [st EXCEPT !.emergency_confirmed = TRUE]
         /\ council_response' = cr
         /\ sms_log' = Append(sms_log, SmsPayload(cr))
         /\ pc' = "sms"
         /\ turn' = [t EXCEPT !.confirmed = "yes", !.sms_calls = @ + 1]
         /\ UNCHANGED <<classification, returned, completed>>
    ELSE /\ Respond([st EXCEPT !.is_emergency = FALSE],
                    Get(cr, "response", TXT_DOWNGRADE_DEFAULT))
         /\ turn' = [t EXCEPT !.confirmed = "no"]
         /\ UNCHANGED sms_log

AfterCouncil ==
    /\ pc = "council"
    /\ \E o \in CouncilOutcomes : AfterCouncilStep(o)
    /\ UNCHANGED <<epoch, turns_started>>
    /\ UNCHANGED <<auxVars, rmVars>>

\* The SMS POST ends, whatever its outcome: reply with the council's text.
AfterSmsStep(o) ==
    /\ Respond(session_state, Get(council_response, "response", TXT_CONFIRM_DEFAULT))
    /\ turn' = [turn EXCEPT !.sms = o]

AfterSms ==
    /\ pc = "sms"
    /\ \E o \in SmsOutcomes : AfterSmsStep(o)
    /\ UNCHANGED <<epoch, turns_started, sms_log>>
    /\ UNCHANGED <<auxVars, rmVars>>

\* MedicalTriageAgent.end_session: self.session_state = SessionState().
\* A function tool: it runs whenever the event loop schedules it, also
\* while a turn is suspended at an await.
Agent_end_session ==
    /\ epoch < MaxSessions
    /\ epoch' = epoch + 1
    /\ session_state' = SessionState
    /\ completed' = 0
    /\ UNCHANGED <<pc, classification, council_response, returned, turn,
                   turns_started, sms_log>>
    /\ UNCHANGED <<auxVars, rmVars>>

\* image_base64 of a set_patient_info call: absent, empty, or an image
PatientInfoImages == {PyNone, "", "image 1"}

\* image_base64 of an update_image call
UpdateImages == {"", "image 2"}

\* MedicalTriageAgent.set_patient_info: a function tool, it runs whenever
\* the event loop schedules it.
set_patient_info_step(patient_id, location, image_base64) ==
    session_state' =
       [session_state EXCEPT
           !.patient_id = patient_id,
           !.location = location,
           !.current_image = IF Truthy(image_base64) THEN image_base64 ELSE @]

set_patient_info ==
    /\ \E image_base64 \in PatientInfoImages :
          /\ set_patient_info_step("P1", "L1", image_base64)
          /\ tool_call' = [name |-> "set_patient_info", image_base64 |-> image_base64,
                           flip |-> ~tool_call.flip]
    /\ UNCHANGED <<pc, classification, council_response, returned, epoch, turn,
                   turns_started, sms_log, completed>>
    /\ UNCHANGED <<decVars, phone_in, phone_out, dispVars, noteVars, rmVars>>

\* MedicalTriageAgent.update_image: a function tool.
update_image_step(image_base64) ==
    session_state' = [session_state EXCEPT !.current_image = image_base64]

update_image ==
    /\ \E image_base64 \in UpdateImages :
          /\ update_image_step(image_base64)
          /\ tool_call' = [name |-> "update_image", image_base64 |-> image_base64,
                           flip |-> ~tool_call.flip]
    /\ UNCHANGED <<pc, classification, council_response, returned, epoch, turn,
                   turns_started, sms_log, completed>>
    /\ UNCHANGED <<decVars, phone_in, phone_out, dispVars, noteVars, rmVars>>

----------------------------------------------------------------------------
(* The confirmation rule on its own: one input, one application *)

\* Confidences (hundredths) a voter may report
ConfValues == {0, 50, 80, 85, 90, 100}

\* One voter's entry: urgency and confidence, or urgency alone
VoteValues ==
    {Vote(u, c) : u \in {"HIGH", "LOW"}, c \in ConfValues}
    \cup {[urgency |-> u] : u \in {"HIGH", "LOW"}}

VoteLists == UNION {[1..n -> VoteValues] : n \in 0..MaxVoters}

\* The top-level keys of a council response, with and without urgency and
\* confidence
CouncilHeads ==
    {[urgency |-> u, confidence |-> c] : u \in {"HIGH", "LOW"}, c \in {10, 99}}
    \cup {[confidence |-> 99], EmptyDict}

WithVotes(head, votes) ==
    [k \in DOMAIN head \cup {"council_votes"} |->
        IF k = "council_votes" THEN votes ELSE head[k]]

\* Council responses: every head with every vote list, and every head with
\* no council_votes key at all
DeciderInputs ==
    {WithVotes(h, v) : h \in CouncilHeads, v \in VoteLists} \cup CouncilHeads

Decide ==
    /\ dec_out = "none"
    /\ dec_out' = IF _council_confirms_emergency(dec_in)
                  THEN "confirmed" ELSE "not_confirmed"
    /\ UNCHANGED <<dec_in, phone_in, phone_out, tool_call, dispVars, noteVars>>
    /\ UNCHANGED <<agentVars, rmVars>>

----------------------------------------------------------------------------
(* src/room_manager.py *)

MaxRequests == 3    \* requests the room manager receives in one run

RoomNames == {"triage-L1-P1-t1", "triage-L1-P1-t2"}

\* Phone numbers as the list of their characters
P_INTL == <<"+", "4", "4", "7">>
P_LOCAL == <<" ", "5", "5", "5", "-", "0", "1">>
P_MALFORMED == <<"5", "x">>

\* emergency_phones of a start request: none, or one number
SessionPhoneLists == {<<>>, <<P_LOCAL>>}

\* phone_numbers of an alert request: none, or two numbers of which the
\* first is no phone number
RequestPhoneLists == {<<>>, <<P_MALFORMED, P_LOCAL>>}

Whitespace == {" "}

RECURSIVE LStrip(_)
LStrip(s) == IF Len(s) > 0 /\ Head(s) \in Whitespace THEN LStrip(Tail(s)) ELSE s

RECURSIVE RStrip(_)
RStrip(s) ==
    IF Len(s) > 0 /\ s[Len(s)] \in Whitespace
    THEN RStrip(SubSeq(s, 1, Len(s) - 1)) ELSE s

\* str.strip()
Strip(s) == RStrip(LStrip(s))

\* .replace("-", "").replace(" ", "").replace("(", "").replace(")", "")
DropSeparators(s) == SelectSeq(s, LAMBDA ch : ch \notin {"-", " ", "(", ")"})

normalize_phone(phone) ==
    LET p == Strip(phone) IN
    IF Len(p) > 0 /\ Head(p) = "+" THEN p
    ELSE <<"+", "1">> \o DropSeparators(p)

Digits == {"0", "1", "2", "3", "4", "5", "6", "7", "8", "9"}

\* Twilio takes a `to` of a "+" and digits, and raises on anything else
TwilioTakes(phone) ==
    /\ Len(phone) > 1
    /\ Head(phone) = "+"
    /\ \A i \in 2..Len(phone) : phone[i] \in Digits

\* Variant: every key but the one written is dropped
Put_resets(d, k, v) == [x \in {k} |-> v]

\* Variant: the key is read but not removed
Pop_keeps(d, k) == d

\* dict.pop(key, default): the dict without the key
Pop(d, k) == [x \in DOMAIN d \ {k} |-> d[x]]

\* d[key] = value
Put(d, k, v) == [x \in DOMAIN d \cup {k} |-> IF x = k THEN v ELSE d[x]]

\* The process environment: TWILIO_PHONE_NUMBER, the Twilio credentials and
\* EMERGENCY_PHONE_NUMBERS.  Twilio fully configured without and with
\* default contacts, and the phone number or the credentials missing.
Envs ==
    {[twilio_phone |-> TRUE, twilio_creds |-> TRUE, default_phones |-> <<>>],
     [twilio_phone |-> TRUE, twilio_creds |-> TRUE, default_phones |-> <<P_INTL>>],
     [twilio_phone |-> FALSE, twilio_creds |-> TRUE, default_phones |-> <<P_INTL>>],
     [twilio_phone |-> TRUE, twilio_creds |-> FALSE, default_phones |-> <<P_INTL>>]}

HTTPException(code, detail) == [status |-> "error", code |-> code, detail |-> detail]

\* start_session up to `await livekit_api.room.create_room`: the room name
\* is generated from patient, location and the clock's second.
start_session ==
    /\ rm_requests < MaxRequests
    /\ rm_requests' = rm_requests + 1
    /\ \E room \in RoomNames, phones \in SessionPhoneLists :
         rm_pending' = rm_pending \cup
            {[op |-> "start", id |-> rm_requests + 1, room_name |-> room,
              emergency_phones |-> phones]}
    /\ UNCHANGED <<active_sessions, alerts_sent, alerts_triggered, twilio_log,
                   rm_response, rm_request, env>>
    /\ UNCHANGED <<agentVars, auxVars>>

\* start_session after the await: register the session, or answer 500.
start_session_resume ==
    /\ \E req \in rm_pending, created \in BOOLEAN :
         /\ req.op = "start"
         /\ rm_pending' = rm_pending \ {req}
         /\ rm_request' = [op |-> "start", room_name |-> req.room_name]
         /\ IF created
            THEN /\ active_sessions' =
                      Put(active_sessions, req.room_name,
                          [patient_id |-> "P1", location |-> "L1",
                           emergency_phones |-> req.emergency_phones])
                 /\ alerts_sent' = Put(alerts_sent, req.room_name, <<>>)
                 /\ alerts_triggered' = Put(alerts_triggered, req.room_name, FALSE)
                 /\ rm_response' = [status |-> "created", room_name |-> req.room_name]
            ELSE /\ rm_response' = HTTPException(500, "create_room failed")
                 /\ UNCHANGED <<active_sessions, alerts_sent, alerts_triggered>>
    /\ UNCHANGED <<twilio_log, rm_requests, env>>
    /\ UNCHANGED <<agentVars, auxVars>>

\* end_session up to `await livekit_api.room.delete_room`
end_session ==
    /\ rm_requests < MaxRequests
    /\ rm_requests' = rm_requests + 1
    /\ \E room \in RoomNames :
         IF room \notin DOMAIN active_sessions
         THEN /\ rm_response' = [status |-> "not_found"]
              /\ rm_request' = [op |-> "end", room_name |-> room]
              /\ UNCHANGED rm_pending
         ELSE /\ rm_pending' = rm_pending \cup
                    {[op |-> "end", id |-> rm_requests + 1, room_name |-> room]}
              /\ UNCHANGED <<rm_response, rm_request>>
    /\ UNCHANGED <<active_sessions, alerts_sent, alerts_triggered, twilio_log, env>>
    /\ UNCHANGED <<agentVars, auxVars>>

SECONDS_PER_DAY == 86400

\* timedelta.seconds of a difference of `elapsed` whole seconds: the days
\* are a field of their own and are not part of it
timedelta_seconds(elapsed) == elapsed % SECONDS_PER_DAY

\* Seconds between started_at and the end call: under a minute, and a day
\* and an hour
ElapsedValues == {59, 90000}

\* Variant: the session is removed before the room is deleted
after_delete_room_pops_first(req, deleted, elapsed) ==
    /\ active_sessions' = Pop(active_sessions, req.room_name)
    /\ alerts_sent' = Pop(alerts_sent, req.room_name)
    /\ alerts_triggered' = Pop(alerts_triggered, req.room_name)
    /\ rm_request' = [op |-> "end", room_name |-> req.room_name,
                      registered |-> req.room_name \in DOMAIN active_sessions,
                      elapsed |-> elapsed]
    /\ rm_response' =
         IF deleted
         THEN [status |-> "ended", room_name |-> req.room_name,
               patient_id |-> PyNone, duration_seconds |-> 0]
         ELSE HTTPException(500, "delete_room failed")

\* end_session after `await delete_room`: pop the session and its alerts and
\* answer with the duration, or answer 500.  A session that is gone by now
\* is popped as {}: its started_at defaults to a second datetime.now(),
\* taken after the first, and the difference of -0 or of a few microseconds
\* below 0 has .seconds 0 or 86399.
after_delete_room(req, deleted, elapsed) ==
    LET registered == req.room_name \in DOMAIN active_sessions
        session_info == Get(active_sessions, req.room_name, EmptyDict)
    IN
    /\ rm_request' = [op |-> "end", room_name |-> req.room_name,
                      registered |-> registered, elapsed |-> elapsed]
    /\ IF deleted
       THEN /\ active_sessions' = Pop(active_sessions, req.room_name)
            /\ alerts_sent' = Pop(alerts_sent, req.room_name)
            /\ alerts_triggered' = Pop(alerts_triggered, req.room_name)
            /\ \E d \in IF registered THEN {timedelta_seconds(elapsed)}
                         ELSE {0, SECONDS_PER_DAY - 1} :
                 rm_response' =
                    [status |-> "ended", room_name |-> req.room_name,
                     patient_id |-> Get(session_info, "patient_id", PyNone),
                     duration_seconds |-> d]
       ELSE /\ rm_response' = HTTPException(500, "delete_room failed")
            /\ UNCHANGED <<active_sessions, alerts_sent, alerts_triggered>>

end_session_resume ==
    /\ \E req \in rm_pending, deleted \in BOOLEAN, elapsed \in ElapsedValues :
         /\ req.op = "end"
         /\ rm_pending' = rm_pending \ {req}
         /\ after_delete_room(req, deleted, elapsed)
    /\ UNCHANGED <<twilio_log, rm_requests, env>>
    /\ UNCHANGED <<agentVars, auxVars>>

\* Variant: a rejected SMS is sent a second time
SmsAttempt_retries(acc, room, phone, accepts) ==
    LET ok == accepts /\ TwilioTakes(phone)
        entry == [via |-> "emergency-alert", room_name |-> room, to |-> phone,
                  type |-> "sms", ok |-> ok]
    IN
    [alerts |-> IF ok
                THEN Append(acc.alerts, [phone |-> phone, type |-> "sms", status |-> "sent"])
                ELSE acc.alerts,
     results |-> Append(acc.results,
                    [phone |-> phone, type |-> "sms",
                     status |-> IF ok THEN "sent" ELSE "failed"]),
     twilio |-> IF ok THEN Append(acc.twilio, entry)
                ELSE Append(Append(acc.twilio, entry), entry)]

\* One twilio.messages.create inside its try/except
SmsAttempt(acc, room, phone, accepts) ==
    LET ok == accepts /\ TwilioTakes(phone) IN
    [alerts |-> IF ok
                THEN Append(acc.alerts, [phone |-> phone, type |-> "sms", status |-> "sent"])
                ELSE acc.alerts,
     results |-> Append(acc.results,
                    [phone |-> phone, type |-> "sms",
                     status |-> IF ok THEN "sent" ELSE "failed"]),
     twilio |-> Append(acc.twilio,
                    [via |-> "emergency-alert", room_name |-> room, to |-> phone,
                     type |-> "sms", ok |-> ok])]

\* One twilio.calls.create inside its try/except
CallAttempt(acc, room, phone, accepts) ==
    LET ok == accepts /\ TwilioTakes(phone) IN
    [alerts |-> IF ok
                THEN Append(acc.alerts, [phone |-> phone, type |-> "call", status |-> "initiated"])
                ELSE acc.alerts,
     results |-> Append(acc.results,
                    [phone |-> phone, type |-> "call",
                     status |-> IF ok THEN "calling" ELSE "failed"]),
     twilio |-> Append(acc.twilio,
                    [via |-> "emergency-alert", room_name |-> room, to |-> phone,
                     type |-> "call", ok |-> ok])]

RECURSIVE AlertLoop_aborts(_, _, _, _, _)
\* Variant: the first rejected request ends the loop
AlertLoop_aborts(phone_numbers, i, request, oc, acc) ==
    IF i > Len(phone_numbers) THEN acc
    ELSE LET phone == normalize_phone(phone_numbers[i])
             a1 == IF request.send_sms
                   THEN SmsAttempt(acc, request.room_name, phone, oc[i].sms)
                   ELSE acc
             a2 == IF request.make_call
                   THEN CallAttempt(a1, request.room_name, phone, oc[i].call)
                   ELSE a1
         IN IF request.send_sms /\ ~oc[i].sms THEN a1
            ELSE IF request.make_call /\ ~oc[i].call THEN a2
            ELSE AlertLoop_aborts(phone_numbers, i + 1, request, oc, a2)

RECURSIVE AlertLoop(_, _, _, _, _)
\* `for phone in phone_numbers:` from the i-th number on; oc[i] says whether
\* Twilio accepts the SMS and the call to the i-th number.
AlertLoop(phone_numbers, i, request, oc, acc) ==
    IF i > Len(phone_numbers) THEN acc
    ELSE LET phone == normalize_phone(phone_numbers[i])
             a1 == IF request.send_sms
                   THEN SmsAttempt(acc, request.room_name, phone, oc[i].sms)
                   ELSE acc
             a2 == IF request.make_call
                   THEN CallAttempt(a1, request.room_name, phone, oc[i].call)
                   ELSE a1
         IN AlertLoop(phone_numbers, i + 1, request, oc, a2)

\* Variant: only the request's numbers count
AlertContacts_request_only(request, session) == request.phone_numbers

\* request.phone_numbers or session.get("emergency_phones") or the numbers
\* of EMERGENCY_PHONE_NUMBERS
AlertContacts(request, session) ==
    IF Len(request.phone_numbers) > 0 THEN request.phone_numbers
    ELSE IF Len(Get(session, "emergency_phones", <<>>)) > 0
         THEN session.emergency_phones
         ELSE env.default_phones

EmergencyAlertRequests ==
    [room_name : RoomNames, phone_numbers : RequestPhoneLists,
     send_sms : BOOLEAN, make_call : BOOLEAN]

\* What Twilio answers to the SMS and to the call for each of n contacts:
\* it accepts everything, rejects one request, or rejects everything
TwilioOutcomes(n) ==
    {oc \in [1..n -> [sms : BOOLEAN, call : BOOLEAN]] :
        LET failed == Cardinality({i \in 1..n : ~oc[i].sms})
                      + Cardinality({i \in 1..n : ~oc[i].call})
        IN failed <= 1 \/ failed = 2 * n}

\* trigger_emergency_alerts: no await anywhere in it, the Twilio client is
\* synchronous, so the whole handler is one step.
trigger_emergency_alerts_step(request) ==
    IF request.room_name \notin DOMAIN active_sessions
    THEN /\ rm_response' = HTTPException(404, "Session not found")
         /\ UNCHANGED <<alerts_sent, alerts_triggered, twilio_log>>
    ELSE LET session == active_sessions[request.room_name]
             phone_numbers == AlertContacts(request, session)
         IN
         IF Len(phone_numbers) = 0
         THEN /\ rm_response' = HTTPException(400, "No emergency phone numbers configured")
              /\ UNCHANGED <<alerts_sent, alerts_triggered, twilio_log>>
         ELSE IF ~env.twilio_phone
         THEN /\ rm_response' = HTTPException(500, "Twilio phone number not configured")
              /\ UNCHANGED <<alerts_sent, alerts_triggered, twilio_log>>
         ELSE IF ~env.twilio_creds
         THEN /\ rm_response' = HTTPException(500, "Twilio credentials not configured")
              /\ UNCHANGED <<alerts_sent, alerts_triggered, twilio_log>>
         ELSE \E oc \in TwilioOutcomes(Len(phone_numbers)) :
              LET done == AlertLoop(phone_numbers, 1, request, oc,
                            [alerts |-> alerts_sent[request.room_name],
                             results |-> <<>>, twilio |-> twilio_log])
              IN /\ alerts_sent' = [alerts_sent EXCEPT ![request.room_name] = done.alerts]
                 /\ twilio_log' = done.twilio
                 /\ alerts_triggered' = [alerts_triggered EXCEPT ![request.room_name] = TRUE]
                 /\ rm_response' =
                      [status |-> "alerts_triggered", room_name |-> request.room_name,
                       results |-> done.results]

trigger_emergency_alerts ==
    /\ rm_requests < MaxRequests
    /\ rm_requests' = rm_requests + 1
    /\ \E request \in EmergencyAlertRequests :
         /\ trigger_emergency_alerts_step(request)
         /\ rm_request' =
              [op |-> "emergency-alert", room_name |-> request.room_name,
               send_sms |-> request.send_sms, make_call |-> request.make_call,
               phone_numbers |-> request.phone_numbers,
               contacts |->
                  IF request.room_name \in DOMAIN active_sessions
                  THEN AlertContacts(request, active_sessions[request.room_name])
                  ELSE <<>>]
    /\ UNCHANGED <<active_sessions, rm_pending, env>>
    /\ UNCHANGED <<agentVars, auxVars>>

\* Roles a join request may name; join_session accepts the first two
Roles == {"user", "doctor", "nurse"}

\* phone_number of a single alert request
AlertPhones == {P_LOCAL}

PARTICIPANT_ID == "p1"

\* The JWT of generate_token, as the grants it carries
generate_token(room_name, identity) ==
    [room |-> room_name, identity |-> identity, room_join |-> TRUE]

\* Variant: the role is not looked at
join_session_any_role(room_name, role) ==
    IF room_name \notin DOMAIN active_sessions
    THEN rm_response' = HTTPException(404, "Session not found")
    ELSE rm_response' =
            [status |-> "success", room_name |-> room_name, role |-> role,
             token |-> generate_token(room_name, role \o "-" \o PARTICIPANT_ID)]

\* join_session: a token for an existing session.  No await, no state change.
join_session_step(room_name, role) ==
    IF room_name \notin DOMAIN active_sessions
    THEN rm_response' = HTTPException(404, "Session not found")
    ELSE IF role \notin {"user", "doctor"}
    THEN rm_response' = HTTPException(400, "Role must be 'user' or 'doctor'")
    ELSE rm_response' =
            [status |-> "success", room_name |-> room_name, role |-> role,
             token |-> generate_token(room_name, role \o "-" \o PARTICIPANT_ID)]

join_session ==
    /\ rm_requests < MaxRequests
    /\ rm_requests' = rm_requests + 1
    /\ \E room_name \in RoomNames, role \in Roles :
         /\ join_session_step(room_name, role)
         /\ rm_request' = [op |-> "join", room_name |-> room_name, role |-> role]
    /\ UNCHANGED <<active_sessions, alerts_sent, alerts_triggered, rm_pending,
                   twilio_log, env>>
    /\ UNCHANGED <<agentVars, auxVars>>

\* The body shared by make_alert_call (type "call") and send_alert_sms
\* (type "sms"): 404 for an unknown room, 500 without TWILIO_PHONE_NUMBER,
\* then inside the try the client (ValueError without credentials) and the
\* Twilio request; only a successful request is tracked in alerts_sent.
single_alert(room_name, phone_number, type, ok) ==
    IF room_name \notin DOMAIN active_sessions
    THEN /\ rm_response' = HTTPException(404, "Session not found")
         /\ UNCHANGED <<alerts_sent, twilio_log>>
    ELSE IF ~env.twilio_phone
    THEN /\ rm_response' = HTTPException(500, "Twilio phone number not configured")
         /\ UNCHANGED <<alerts_sent, twilio_log>>
    ELSE IF ~env.twilio_creds
    THEN /\ rm_response' = HTTPException(500, "Twilio credentials not configured")
         /\ UNCHANGED <<alerts_sent, twilio_log>>
    ELSE LET phone == normalize_phone(phone_number) IN
         /\ twilio_log' = Append(twilio_log,
               [via |-> "alert-" \o type, room_name |-> room_name, to |-> phone,
                type |-> type, ok |-> ok])
         /\ IF ok
            THEN /\ alerts_sent' =
                      [alerts_sent EXCEPT ![room_name] =
                          Append(@, [phone |-> phone, type |-> type,
                                     status |-> IF type = "call" THEN "initiated"
                                                ELSE "sent"])]
                 /\ rm_response' =
                      [status |-> IF type = "call" THEN "calling" ELSE "sent",
                       room_name |-> room_name, phone_number |-> phone,
                       alert_type |-> type]
            ELSE /\ rm_response' = HTTPException(500, "Twilio error")
                 /\ UNCHANGED alerts_sent

make_alert_call_step(room_name, phone_number, ok) ==
    single_alert(room_name, phone_number, "call", ok)

make_alert_call ==
    /\ rm_requests < MaxRequests
    /\ rm_requests' = rm_requests + 1
    /\ \E room_name \in RoomNames, phone_number \in AlertPhones, ok \in BOOLEAN :
         /\ make_alert_call_step(room_name, phone_number, ok)
         /\ rm_request' = [op |-> "alert-call", room_name |-> room_name]
    /\ UNCHANGED <<active_sessions, alerts_triggered, rm_pending, env>>
    /\ UNCHANGED <<agentVars, auxVars>>

send_alert_sms_step(room_name, phone_number, ok) ==
    single_alert(room_name, phone_number, "sms", ok)

send_alert_sms ==
    /\ rm_requests < MaxRequests
    /\ rm_requests' = rm_requests + 1
    /\ \E room_name \in RoomNames, phone_number \in AlertPhones, ok \in BOOLEAN :
         /\ send_alert_sms_step(room_name, phone_number, ok)
         /\ rm_request' = [op |-> "alert-sms", room_name |-> room_name]
    /\ UNCHANGED <<active_sessions, alerts_triggered, rm_pending, env>>
    /\ UNCHANGED <<agentVars, auxVars>>

\* get_session_status up to `await livekit_api.room.list_rooms`
get_session_status ==
    /\ rm_requests < MaxRequests
    /\ rm_requests' = rm_requests + 1
    /\ \E room_name \in RoomNames :
         IF room_name \notin DOMAIN active_sessions
         THEN /\ rm_response' = [status |-> "not_found"]
              /\ rm_request' = [op |-> "status", room_name |-> room_name]
              /\ UNCHANGED rm_pending
         ELSE /\ rm_pending' = rm_pending \cup
                    {[op |-> "status", id |-> rm_requests + 1,
                      room_name |-> room_name, stage |-> "list_rooms",
                      session |-> EmptyDict]}
              /\ UNCHANGED <<rm_response, rm_request>>
    /\ UNCHANGED <<active_sessions, alerts_sent, alerts_triggered, twilio_log, env>>
    /\ UNCHANGED <<agentVars, auxVars>>

\* What LiveKit answers to list_rooms: the room is listed, it is gone, or
\* the request raises
ListRoomsOutcomes == {"exists", "gone", "error"}

\* Variant: a room that is gone is reported, the session is kept
after_list_rooms_keeps(req, outcome) ==
    /\ rm_response' = IF outcome = "gone" THEN [status |-> "ended"]
                      ELSE HTTPException(500, "Internal Server Error")
    /\ rm_request' = [op |-> "status", room_name |-> req.room_name,
                      list_rooms |-> outcome]
    /\ rm_pending' = rm_pending \ {req}
    /\ UNCHANGED <<active_sessions, alerts_sent, alerts_triggered>>

\* Variant: the session whose room is gone is pruned, its alert log is kept
after_list_rooms_keeps_log(req, outcome) ==
    /\ active_sessions' = IF outcome = "gone" THEN Pop(active_sessions, req.room_name)
                          ELSE active_sessions
    /\ rm_response' = IF outcome = "gone" THEN [status |-> "ended"]
                      ELSE HTTPException(500, "Internal Server Error")
    /\ rm_request' = [op |-> "status", room_name |-> req.room_name,
                      list_rooms |-> outcome]
    /\ rm_pending' = rm_pending \ {req}
    /\ UNCHANGED <<alerts_sent, alerts_triggered>>

\* get_session_status after `await list_rooms`: prune the session whose room
\* is gone, otherwise read the session and ask for the participants.
after_list_rooms(req, outcome) ==
    CASE outcome = "gone" ->
           /\ active_sessions' = Pop(active_sessions, req.room_name)
           /\ alerts_sent' = Pop(alerts_sent, req.room_name)
           /\ alerts_triggered' = Pop(alerts_triggered, req.room_name)
           /\ rm_response' = [status |-> "ended"]
           /\ rm_request' = [op |-> "status", room_name |-> req.room_name,
                            list_rooms |-> outcome]
           /\ rm_pending' = rm_pending \ {req}
      [] outcome = "exists" /\ req.room_name \in DOMAIN active_sessions ->
           /\ rm_pending' = (rm_pending \ {req}) \cup
                 {[req EXCEPT !.stage = "list_participants",
                              !.session = active_sessions[req.room_name]]}
           /\ UNCHANGED <<active_sessions, alerts_sent, alerts_triggered,
                          rm_response, rm_request>>
      [] OTHER ->    \* list_rooms raised, or KeyError on active_sessions[room_name]
           /\ rm_response' = HTTPException(500, "Internal Server Error")
           /\ rm_request' = [op |-> "status", room_name |-> req.room_name,
                            list_rooms |-> outcome]
           /\ rm_pending' = rm_pending \ {req}
           /\ UNCHANGED <<active_sessions, alerts_sent, alerts_triggered>>

\* get_session_status after `await list_participants`: the active answer,
\* with the alert log as it is now.
after_list_participants(req, ok) ==
    /\ rm_response' =
         IF ok
         THEN [status |-> "active", room_name |-> req.room_name,
               patient_id |-> req.session.patient_id,
               alerts_sent |-> Get(alerts_sent, req.room_name, <<>>)]
         ELSE HTTPException(500, "Internal Server Error")
    /\ rm_request' = [op |-> "status", room_name |-> req.room_name,
                      list_rooms |-> "exists", list_participants |-> ok]
    /\ rm_pending' = rm_pending \ {req}
    /\ UNCHANGED <<active_sessions, alerts_sent, alerts_triggered>>

get_session_status_resume ==
    /\ \E req \in rm_pending :
         /\ req.op = "status"
         /\ IF req.stage = "list_rooms"
            THEN \E outcome \in ListRoomsOutcomes : after_list_rooms(req, outcome)
            ELSE \E ok \in BOOLEAN : after_list_participants(req, ok)
    /\ UNCHANGED <<twilio_log, rm_requests, env>>
    /\ UNCHANGED <<agentVars, auxVars>>

\* Variant: no check that the session exists
get_alerts_unchecked(room_name) ==
    rm_response' = [room_name |-> room_name,
                    alerts |-> Get(alerts_sent, room_name, <<>>)]

\* get_alerts: the alert log of an existing session
get_alerts_step(room_name) ==
    IF room_name \notin DOMAIN active_sessions
    THEN rm_response' = HTTPException(404, "Session not found")
    ELSE rm_response' = [room_name |-> room_name,
                         alerts |-> Get(alerts_sent, room_name, <<>>)]

get_alerts ==
    /\ rm_requests < MaxRequests
    /\ rm_requests' = rm_requests + 1
    /\ \E room_name \in RoomNames :
         /\ get_alerts_step(room_name)
         /\ rm_request' = [op |-> "alerts", room_name |-> room_name]
    /\ UNCHANGED <<active_sessions, alerts_sent, alerts_triggered, rm_pending,
                   twilio_log, env>>
    /\ UNCHANGED <<agentVars, auxVars>>

\* The "sessions" of list_active_sessions: one entry per key of
\* active_sessions (kept as a set; the order of the list is the dict's)
active_sessions_listing(sessions) ==
    {[room_name |-> name, patient_id |-> sessions[name].patient_id,
      alerts_count |-> Len(Get(alerts_sent, name, <<>>))] : name \in DOMAIN sessions}

list_active_sessions ==
    /\ rm_requests < MaxRequests
    /\ rm_requests' = rm_requests + 1
    /\ rm_response' = [count |-> Cardinality(DOMAIN active_sessions),
                       sessions |-> active_sessions_listing(active_sessions)]
    /\ rm_request' = [op |-> "list"]
    /\ UNCHANGED <<active_sessions, alerts_sent, alerts_triggered, rm_pending,
                   twilio_log, env>>
    /\ UNCHANGED <<agentVars, auxVars>>

----------------------------------------------------------------------------
(* src/agent_dispatcher.py *)

MaxSpawns == 2    \* processes the dispatcher starts in one run
MaxStops == 2     \* stop_agent_for_room calls in one run

DispRooms == {"triage-L1-P1-t1"}

DispInit ==
    /\ active_agents = EmptyDict
    /\ processes = <<>>
    /\ monitor_tasks = {}
    /\ stop_calls = {}
    /\ stops_started = 0
    /\ disp_return = [op |-> "none"]

\* spawn_agent_for_room: no await in it.  With no agent tracked for the
\* room, Popen starts a process (or raises), the process is registered and
\* its monitor task is created.
spawn_agent_for_room_step(room_name, popen_ok) ==
    IF room_name \in DOMAIN active_agents
    THEN /\ disp_return' = [op |-> "spawn", room_name |-> room_name, value |-> TRUE]
         /\ UNCHANGED <<active_agents, processes, monitor_tasks>>
    ELSE IF popen_ok
    THEN LET process == Len(processes) + 1 IN
         /\ processes' = Append(processes, [room_name |-> room_name,
                                            status |-> "running"])
         /\ active_agents' = Put(active_agents, room_name, process)
         /\ monitor_tasks' = monitor_tasks \cup {process}
         /\ disp_return' = [op |-> "spawn", room_name |-> room_name, value |-> TRUE]
    ELSE /\ disp_return' = [op |-> "spawn", room_name |-> room_name, value |-> FALSE]
         /\ UNCHANGED <<active_agents, processes, monitor_tasks>>

spawn_agent_for_room ==
    /\ Len(processes) < MaxSpawns
    /\ \E room_name \in DispRooms, popen_ok \in BOOLEAN :
         spawn_agent_for_room_step(room_name, popen_ok)
    /\ UNCHANGED <<stop_calls, stops_started>>
    /\ UNCHANGED <<agentVars, rmVars, decVars, phone_in, phone_out, tool_call, noteVars>>

\* An agent process ends: by itself, or on the signal of terminate() or kill()
ProcessExit ==
    /\ \E process \in DOMAIN processes :
         /\ processes[process].status = "running"
         /\ processes' = [processes EXCEPT ![process].status = "exited"]
    /\ UNCHANGED <<active_agents, monitor_tasks, stop_calls, stops_started, disp_return>>
    /\ UNCHANGED <<agentVars, rmVars, decVars, phone_in, phone_out, tool_call, noteVars>>

\* _monitor_agent after `await run_in_executor(None, process.communicate)`,
\* which returns once the process has ended: the `finally` removes whatever
\* is registered under the room.
_monitor_agent_resume(process) ==
    LET room_name == processes[process].room_name IN
    /\ monitor_tasks' = monitor_tasks \ {process}
    /\ active_agents' = IF room_name \in DOMAIN active_agents
                        THEN Pop(active_agents, room_name)
                        ELSE active_agents

_monitor_agent ==
    /\ \E process \in monitor_tasks :
         /\ processes[process].status = "exited"
         /\ _monitor_agent_resume(process)
    /\ UNCHANGED <<processes, stop_calls, stops_started, disp_return>>
    /\ UNCHANGED <<agentVars, rmVars, decVars, phone_in, phone_out, tool_call, noteVars>>

\* stop_agent_for_room up to `await asyncio.wait_for(... process.wait ...)`:
\* False for an untracked room, else terminate() on the tracked process.
stop_agent_for_room ==
    /\ stops_started < MaxStops
    /\ stops_started' = stops_started + 1
    /\ \E room_name \in DispRooms :
         IF room_name \notin DOMAIN active_agents
         THEN /\ disp_return' = [op |-> "stop", id |-> stops_started + 1,
                                 room_name |-> room_name, value |-> FALSE]
              /\ UNCHANGED stop_calls
         ELSE /\ stop_calls' = stop_calls \cup
                    {[id |-> stops_started + 1, room_name |-> room_name,
                      process |-> active_agents[room_name], stage |-> "wait"]}
              /\ UNCHANGED disp_return
    /\ UNCHANGED <<active_agents, processes, monitor_tasks>>
    /\ UNCHANGED <<agentVars, rmVars, decVars, phone_in, phone_out, tool_call, noteVars>>

\* stop_agent_for_room at asyncio.TimeoutError: the process still runs
\* after 5 seconds, kill() and wait again.
stop_agent_for_room_timeout ==
    /\ \E call \in stop_calls :
         /\ call.stage = "wait"
         /\ processes[call.process].status = "running"
         /\ stop_calls' = (stop_calls \ {call}) \cup {[call EXCEPT !.stage = "killed"]}
    /\ UNCHANGED <<active_agents, processes, monitor_tasks, stops_started, disp_return>>
    /\ UNCHANGED <<agentVars, rmVars, decVars, phone_in, phone_out, tool_call, noteVars>>

\* stop_agent_for_room after process.wait() returned:
\* `del self.active_agents[room_name]`, whose KeyError is caught by the
\* `except Exception` that returns False.
after_process_wait(call) ==
    IF call.room_name \in DOMAIN active_agents
    THEN /\ active_agents' = Pop(active_agents, call.room_name)
         /\ disp_return' = [op |-> "stop", id |-> call.id,
                            room_name |-> call.room_name, value |-> TRUE]
    ELSE /\ disp_return' = [op |-> "stop", id |-> call.id,
                            room_name |-> call.room_name, value |-> FALSE]
         /\ UNCHANGED active_agents

stop_agent_for_room_resume ==
    /\ \E call \in stop_calls :
         /\ processes[call.process].status = "exited"
         /\ stop_calls' = stop_calls \ {call}
         /\ after_process_wait(call)
    /\ UNCHANGED <<processes, monitor_tasks, stops_started>>
    /\ UNCHANGED <<agentVars, rmVars, decVars, phone_in, phone_out, tool_call, noteVars>>

----------------------------------------------------------------------------
(* src/agent.py *)

MaxEntries == 8    \* transcriptions the note agent hears in one run

NOTES_THRESHOLD == 5

NoteInit ==
    /\ transcription_buffer = <<>>
    /\ entries_heard = 0
    /\ notes_tasks = {}
    /\ tasks_created = 0
    /\ notes = <<>>
    /\ transcribed = {}

\* _handle_transcription: a plain function, called by the speech events.
\* The entry is appended and, with five or more entries in the buffer, a
\* _generate_notes task is created; the task starts later.
_handle_transcription ==
    /\ entries_heard < MaxEntries
    /\ entries_heard' = entries_heard + 1
    /\ transcription_buffer' = Append(transcription_buffer, entries_heard + 1)
    /\ IF Len(transcription_buffer') >= NOTES_THRESHOLD
       THEN /\ tasks_created' = tasks_created + 1
            /\ notes_tasks' = notes_tasks \cup
                  {[id |-> tasks_created + 1, stage |-> "created",
                    transcript |-> <<>>]}
       ELSE UNCHANGED <<tasks_created, notes_tasks>>
    /\ UNCHANGED <<notes, transcribed>>
    /\ UNCHANGED <<agentVars, rmVars, decVars, phone_in, phone_out, tool_call, dispVars>>

\* _generate_notes from its start to the first await of `llm.chat`: the
\* transcript is built from the buffer as it is now.
_generate_notes ==
    /\ \E task \in notes_tasks :
         /\ task.stage = "created"
         /\ notes_tasks' = (notes_tasks \ {task}) \cup
               {[task EXCEPT !.stage = "llm", !.transcript = transcription_buffer]}
         /\ transcribed' = transcribed \cup
               {transcription_buffer[i] : i \in DOMAIN transcription_buffer}
    /\ UNCHANGED <<transcription_buffer, entries_heard, tasks_created, notes>>
    /\ UNCHANGED <<agentVars, rmVars, decVars, phone_in, phone_out, tool_call, dispVars>>

\* _generate_notes after the last chunk of the language model: the notes
\* are replaced and the buffer is cleared (what follows, _send_notes and a
\* log line, touches neither); or the stream raised and nothing changes.
after_llm_chat(task, ok) ==
    IF ok
    THEN /\ notes' = task.transcript
         /\ transcription_buffer' = <<>>
    ELSE UNCHANGED <<notes, transcription_buffer>>

_generate_notes_resume ==
    /\ \E task \in notes_tasks, ok \in BOOLEAN :
         /\ task.stage = "llm"
         /\ notes_tasks' = notes_tasks \ {task}
         /\ after_llm_chat(task, ok)
    /\ UNCHANGED <<entries_heard, tasks_created, transcribed>>
    /\ UNCHANGED <<agentVars, rmVars, decVars, phone_in, phone_out, tool_call, dispVars>>

----------------------------------------------------------------------------
(* Specifications *)

NoPhone == <<"<None>">>

DecInit ==
    /\ dec_in = EmptyDict /\ dec_out = "none"
    /\ phone_in = NoPhone /\ phone_out = NoPhone
    /\ tool_call = [name |-> "none", image_base64 |-> PyNone, flip |-> FALSE]
    /\ DispInit /\ NoteInit

RmInit ==
    /\ active_sessions = EmptyDict
    /\ alerts_sent = EmptyDict
    /\ alerts_triggered = EmptyDict
    /\ rm_pending = {}
    /\ twilio_log = <<>>
    /\ rm_response = EmptyDict
    /\ rm_requests = 0
    /\ rm_request = [op |-> "none"]
    /\ env = [twilio_phone |-> TRUE, twilio_creds |-> TRUE, default_phones |-> <<>>]

AgentInit ==
    /\ session_state = SessionState
    /\ pc = "idle"
    /\ classification = EmptyDict
    /\ council_response = EmptyDict
    /\ returned = PyNone
    /\ epoch = 0
    /\ turn = NoTurn
    /\ turns_started = 0
    /\ sms_log = <<>>
    /\ completed = 0

Init == AgentInit /\ DecInit /\ RmInit

Next ==
    \/ BlankTurn
    \/ UserTurn
    \/ AfterClassify
    \/ AfterCouncil
    \/ AfterSms
    \/ Agent_end_session

\* The triage agent.
Spec == Init /\ [][Next]_vars

\* The triage agent when every POST it waits for ends: aiohttp's client
\* timeout bounds each of them.
FairSpec ==
    /\ Spec
    /\ WF_vars(AfterClassify)
    /\ WF_vars(AfterCouncil)
    /\ WF_vars(AfterSms)

\* A fresh session of an agent that has served earlier ones: the state
\* after the turns and end_session calls of the earlier sessions and a blank
\* utterance, with one utterance still to come.
ToolInit ==
    /\ session_state = SessionState
    /\ pc = "idle"
    /\ classification = EmptyDict
    /\ council_response = EmptyDict
    /\ returned = PyNone
    /\ epoch = MaxSessions
    /\ turn = NoTurn
    /\ turns_started = MaxTurns - 1
    /\ sms_log = <<>>
    /\ completed = 0
    /\ DecInit /\ RmInit

ToolNext ==
    \/ BlankTurn
    \/ UserTurn
    \/ AfterClassify
    \/ AfterCouncil
    \/ AfterSms
    \/ set_patient_info
    \/ update_image

\* One session of the triage agent with the tools that set the patient and
\* the image.
ToolSpec == ToolInit /\ [][ToolNext]_vars

\* The confirmation rule over every input of DeciderInputs.
DeciderInit ==
    /\ AgentInit /\ RmInit
    /\ dec_in \in DeciderInputs /\ dec_out = "none"
    /\ phone_in = NoPhone /\ phone_out = NoPhone
    /\ tool_call = [name |-> "none", image_base64 |-> PyNone, flip |-> FALSE]
    /\ DispInit /\ NoteInit

DeciderNext == Decide

DeciderSpec == DeciderInit /\ [][DeciderNext]_vars

\* The room manager, in every environment of Envs.
RMSpecInit ==
    /\ AgentInit /\ DecInit
    /\ active_sessions = EmptyDict
    /\ alerts_sent = EmptyDict
    /\ alerts_triggered = EmptyDict
    /\ rm_pending = {}
    /\ twilio_log = <<>>
    /\ rm_response = EmptyDict
    /\ rm_requests = 0
    /\ rm_request = [op |-> "none"]
    /\ env \in Envs

RMNext ==
    \/ start_session
    \/ start_session_resume
    \/ end_session
    \/ end_session_resume
    \/ trigger_emergency_alerts
    \/ join_session
    \/ make_alert_call
    \/ send_alert_sms
    \/ get_session_status
    \/ get_session_status_resume
    \/ get_alerts
    \/ list_active_sessions

RMSpec == RMSpecInit /\ [][RMNext]_vars

\* The two services.  They are separate processes that share no state, so
\* each is run while the other is in its initial state; the agent, which
\* reads nothing of the room manager's environment, in one environment.
ServicesInit == RMSpecInit

ServicesNext ==
    \/ RmInit /\ Next
    \/ AgentInit /\ RMNext

ServicesSpec == ServicesInit /\ [][ServicesNext]_vars

MaxPhoneLen == 3    \* characters of a phone number after its optional "+"

\* The characters of a phone number as it is typed: a digit and the
\* separators
PhoneChars == {"5", " ", "-", "(", ")"}

PhoneBodies == UNION {[1..n -> PhoneChars] : n \in 0..MaxPhoneLen}

PhoneInputs == PhoneBodies \cup {<<"+">> \o b : b \in PhoneBodies}

\* normalize_phone applied to phone_in
NormalizePhone ==
    /\ phone_out = NoPhone
    /\ phone_out' = normalize_phone(phone_in)
    /\ UNCHANGED <<decVars, phone_in, tool_call, dispVars, noteVars>>
    /\ UNCHANGED <<agentVars, rmVars>>

PhoneInit ==
    /\ AgentInit /\ RmInit
    /\ dec_in = EmptyDict /\ dec_out = "none"
    /\ tool_call = [name |-> "none", image_base64 |-> PyNone, flip |-> FALSE]
    /\ DispInit /\ NoteInit
    /\ phone_in \in PhoneInputs /\ phone_out = NoPhone

PhoneNext == NormalizePhone

\* normalize_phone over every input of PhoneInputs.
PhoneSpec == PhoneInit /\ [][PhoneNext]_vars

DispNext ==
    \/ spawn_agent_for_room
    \/ ProcessExit
    \/ _monitor_agent
    \/ stop_agent_for_room
    \/ stop_agent_for_room_timeout
    \/ stop_agent_for_room_resume

\* The agent dispatcher.
DispSpec == Init /\ [][DispNext]_vars

NoteNext ==
    \/ _handle_transcription
    \/ _generate_notes
    \/ _generate_notes_resume

\* The note-taking agent.
NoteSpec == Init /\ [][NoteNext]_vars

----------------------------------------------------------------------------
(* Claims *)

history == session_state.conversation_history

SmsPostsOf(e) == {i \in DOMAIN sms_log : sms_log[i].turn_session = e}

\* C1: within one session the SMS service is contacted at most once, however
\* many turns the council confirms.
C1_OneDispatchPerSession ==
    \A e \in 0..MaxSessions : Cardinality(SmsPostsOf(e)) <= 1

EmergencyAttempts(log, r) ==
    Cardinality({i \in DOMAIN log :
        log[i].via = "emergency-alert" /\ log[i].room_name = r})

\* C2: once a trigger_emergency_alerts call has run for a session
\* (alerts_triggered) and made its attempts, a later call for that session
\* makes no SMS or call attempt on Twilio and adds nothing to the alert log.
C2_RepeatedTriggerIsNoOp ==
    [][\A r \in RoomNames :
         (r \in DOMAIN alerts_triggered /\ alerts_triggered[r]
          /\ EmergencyAttempts(twilio_log, r) > 0
          /\ r \in DOMAIN alerts_triggered' /\ alerts_triggered'[r])
         => /\ EmergencyAttempts(twilio_log', r) = EmergencyAttempts(twilio_log, r)
            /\ alerts_sent'[r] = alerts_sent[r]]_vars

dec_votes == Get(dec_in, "council_votes", <<>>)

IsHigh(v) == "urgency" \in DOMAIN v /\ v.urgency = "HIGH"

\* The HIGH voters outnumber all the others.
HighOutnumbersRest(votes) ==
    Cardinality({i \in DOMAIN votes : IsHigh(votes[i])})
        > Cardinality({i \in DOMAIN votes : ~IsHigh(votes[i])})

RECURSIVE ExcessOverCutoff(_)
\* Sum over the voters of (confidence - 0.85); a voter without confidence counts 0.
ExcessOverCutoff(votes) ==
    IF Len(votes) = 0 THEN 0
    ELSE (IF "confidence" \in DOMAIN Head(votes) THEN Head(votes).confidence ELSE 0)
         - 85 + ExcessOverCutoff(Tail(votes))

C4_NoVotesUseUrgency ==
    (dec_out # "none" /\ Len(dec_votes) = 0)
    => (dec_out = "confirmed"
        <=> ("urgency" \in DOMAIN dec_in /\ dec_in.urgency = "HIGH"))

\* No council_votes key, urgency LOW, confidence 0.99: not confirmed.
C4_Witness ==
    /\ dec_out = "not_confirmed"
    /\ dec_in = [urgency |-> "LOW", confidence |-> 99]

CouncilFailed == turn.council \in {"bad_status", "exception"}

\* C5: a turn whose council call failed is confirmed; an SMS was requested
\* for it with urgency HIGH and confidence 0.8; once it has returned, its
\* reply is the non-empty fail-open text and, if its session is still the
\* current one, emergency_confirmed is set.
C5_FailOpen ==
    CouncilFailed
    => /\ turn.confirmed = "yes"
       /\ turn.sms_calls = 1
       /\ Len(sms_log) > 0
       /\ sms_log[Len(sms_log)].urgency = "HIGH"
       /\ sms_log[Len(sms_log)].confidence = 80
       /\ sms_log[Len(sms_log)].turn_session = turn.session
       /\ turn.session = epoch => session_state.emergency_confirmed
       /\ pc = "idle" => returned = TXT_FAILOPEN

C5_Witness ==
    /\ pc = "idle"
    /\ turn.council = "exception"
    /\ turn.session = epoch
    /\ session_state.emergency_confirmed
    /\ returned = TXT_FAILOPEN

ClassifyFailed == turn.classify \in {"bad_status", "exception"}

C6_AfterFailure ==
    ClassifyFailed
    => /\ turn.category = "UNKNOWN"
       /\ turn.council_calls = 0
       /\ turn.sms_calls = 0
       /\ pc = "idle"
       /\ returned = TXT_CLASSIFY_FALLBACK

C6_FailureStep ==
    (pc = "classify" /\ turn'.classify \in {"bad_status", "exception"})
    => /\ session_state'.is_emergency = session_state.is_emergency
       /\ session_state'.emergency_confirmed = session_state.emergency_confirmed
       /\ session_state'.council_response = session_state.council_response
       /\ sms_log' = sms_log

\* C6: when the classify call fails the category is UNKNOWN, no council
\* call and no SMS is made, is_emergency and emergency_confirmed keep their
\* values, and the non-empty clarifying text is returned.
C6_ClassifyFailure == []C6_AfterFailure /\ [][C6_FailureStep]_vars

\* A classify failure in a session whose emergency was confirmed earlier.
C6_Witness ==
    /\ pc = "idle"
    /\ turn.classify = "bad_status"
    /\ returned = TXT_CLASSIFY_FALLBACK
    /\ session_state.emergency_confirmed
    /\ session_state.is_emergency

\* C7: no SMS is posted for a turn whose session has ended: every post is
\* made while the session the turn started in is still the current one.
C7_NoAlertAfterEnd ==
    \A i \in DOMAIN sms_log : sms_log[i].posted_in = sms_log[i].turn_session

\* C8: between turns the history has one entry per completed turn and every
\* entry has its assistant text filled in.
C8_HistoryFilled ==
    pc = "idle"
    => /\ Len(history) = completed
       /\ \A i \in DOMAIN history : history[i].assistant # PyNone

\* C9: every turn that entered the pipeline returns, and returns a text.
C9_EveryTurnResponds ==
    [](pc # "idle" => <>(pc = "idle" /\ returned \notin {TXT_PENDING, PyNone}))

\* A turn whose classifier answer could not be used returned the apology.
C9_Witness ==
    /\ pc = "idle"
    /\ turn.classify = "malformed"
    /\ returned = TXT_ERROR

C10_Order ==
    /\ pc = "council" =>
          /\ turn.classify = "ok"
          /\ "category" \in DOMAIN classification
          /\ classification.category \in {"CRITICAL", "EMERGENCY"}
    /\ turn.council_calls > 0 =>
          turn.classify = "ok" /\ turn.category \in {"CRITICAL", "EMERGENCY"}
    /\ pc = "sms" => _council_confirms_emergency(council_response)
    /\ turn.sms_calls > 0 => turn.council_calls = 1 /\ turn.confirmed = "yes"
    /\ turn.confirmed = "no" => turn.sms_calls = 0 /\ pc = "idle"

C10_CouncilStep ==
    pc = "council"
    => /\ sms_log' # sms_log =>
            /\ pc' = "sms"
            /\ _council_confirms_emergency(session_state'.council_response[1])
       /\ turn'.confirmed = "no" =>
            /\ ~_council_confirms_emergency(session_state'.council_response[1])
            /\ sms_log' = sms_log
            /\ session_state'.emergency_confirmed = session_state.emergency_confirmed

\* C10: the council is called only after classify returned CRITICAL or
\* EMERGENCY in that turn, an SMS is posted only after the confirmation rule
\* held of that turn's council result, and a turn the rule did not confirm
\* posts no SMS and leaves emergency_confirmed as it was.
C10_CouncilAfterClassify == []C10_Order /\ [][C10_CouncilStep]_vars

\* A downgraded turn in a session confirmed earlier.
C10_Witness ==
    /\ pc = "idle"
    /\ turn.confirmed = "no"
    /\ turn.sms_calls = 0
    /\ session_state.emergency_confirmed
    /\ Len(sms_log) = 1

----------------------------------------------------------------------------
(* Claims about the room manager *)

\* The step receives a request and answers it at once with operation op.
AnswersNow(op) ==
    /\ rm_requests' = rm_requests + 1
    /\ rm_pending' = rm_pending
    /\ rm_request'.op = op

\* The step resumes a suspended request of operation op and answers it.
AnswersLater(op) ==
    /\ rm_requests' = rm_requests
    /\ rm_pending' # rm_pending
    /\ rm_request'.op = op
    /\ \E req \in rm_pending \ rm_pending' :
          req.op = op /\ req.room_name = rm_request'.room_name

Channels(rq) == (IF rq.send_sms THEN 1 ELSE 0) + (IF rq.make_call THEN 1 ELSE 0)

\* The channels of a request, in the order the loop tries them
ChannelSeq(rq) ==
    (IF rq.send_sms THEN <<"sms">> ELSE <<>>) \o (IF rq.make_call THEN <<"call">> ELSE <<>>)

C11_Results ==
    (rm_request.op = "emergency-alert" /\ rm_response.status = "alerts_triggered")
    => LET results == rm_response.results
           contacts == rm_request.contacts
           ch == ChannelSeq(rm_request)
       IN /\ Len(results) = Len(contacts) * Len(ch)
          /\ \A i \in DOMAIN contacts : \A k \in DOMAIN ch :
                LET r == results[(i - 1) * Len(ch) + k] IN
                /\ r.phone = normalize_phone(contacts[i])
                /\ r.type = ch[k]
                /\ r.status \in {"sent", "calling", "failed"}

C11_Step ==
    (/\ AnswersNow("emergency-alert")
     /\ rm_request'.room_name \in DOMAIN active_sessions
     /\ Len(rm_request'.contacts) > 0
     /\ env.twilio_phone /\ env.twilio_creds)
    => /\ rm_response'.status = "alerts_triggered"
       /\ Len(twilio_log') - Len(twilio_log)
             = Len(rm_request'.contacts) * Channels(rm_request')

\* C11: an emergency-alert call that reaches its loop answers
\* alerts_triggered whatever Twilio does, makes one Twilio request per
\* contact and requested channel, and its results hold exactly one entry per
\* contact and requested channel, in the loop's order.
C11_OneResultPerAttempt == []C11_Results /\ [][C11_Step]_vars

\* A rejected request followed by an accepted one in the same call.
C11_Witness ==
    /\ rm_request.op = "emergency-alert"
    /\ rm_response.status = "alerts_triggered"
    /\ Len(rm_response.results) = 4
    /\ rm_response.results[1].status = "failed"
    /\ rm_response.results[4].status = "calling"

\* C12: an emergency-alert call adds to the session's alert log one record
\* per attempt it made, the failed attempts included.
C12_AllAttemptsLogged ==
    [][(AnswersNow("emergency-alert") /\ rm_response'.status = "alerts_triggered")
       => LET r == rm_request'.room_name IN
          Len(alerts_sent'[r]) - Len(alerts_sent[r]) = Len(rm_response'.results)]_vars

SessionOps == {"join", "end", "alert-call", "alert-sms", "emergency-alert",
               "status", "alerts"}

NotFoundOutcome(resp) ==
    \/ Get(resp, "status", PyNone) = "not_found"
    \/ Get(resp, "status", PyNone) = "error" /\ resp.code = 404

\* The step receives a session-addressed request for room r.
ReceivedFor(r) ==
    /\ rm_requests' = rm_requests + 1
    /\ \/ \E req \in rm_pending' \ rm_pending :
             req.op \in SessionOps /\ req.room_name = r
       \/ /\ rm_pending' = rm_pending
          /\ rm_request'.op \in SessionOps
          /\ rm_request'.room_name = r

\* C13: a session-addressed request for a room that is not in
\* active_sessions is answered at once with a not-found outcome, makes no
\* Twilio request and leaves active_sessions and alerts_sent as they were.
C13_UnknownRoom ==
    [][\A r \in RoomNames :
         (r \notin DOMAIN active_sessions /\ ReceivedFor(r))
         => /\ rm_pending' = rm_pending
            /\ NotFoundOutcome(rm_response')
            /\ twilio_log' = twilio_log
            /\ active_sessions' = active_sessions
            /\ alerts_sent' = alerts_sent]_vars

\* An alert request for an unknown room while another session has alerts.
C13_Witness ==
    /\ rm_request.op \in {"alert-call", "alert-sms", "emergency-alert"}
    /\ rm_request.room_name \notin DOMAIN active_sessions
    /\ NotFoundOutcome(rm_response)
    /\ \E r \in DOMAIN alerts_sent : Len(alerts_sent[r]) > 0

\* A room name enters active_sessions only when a start_session registers it.
OnlyStartRegisters ==
    \A r \in RoomNames :
       (r \notin DOMAIN active_sessions /\ r \in DOMAIN active_sessions')
       => /\ AnswersLater("start")
          /\ rm_request'.room_name = r
          /\ rm_response'.status = "created"

\* A lookup (join, status, alerts) of a room that is not registered fails.
UnknownLookupFails ==
    \A op \in {"join", "status", "alerts"} :
       (AnswersNow(op) /\ rm_request'.room_name \notin DOMAIN active_sessions)
       => NotFoundOutcome(rm_response')

C14_EndRemoves ==
    (AnswersLater("end") /\ rm_response'.status = "ended")
    => /\ rm_request'.room_name \notin DOMAIN active_sessions'
       /\ rm_request'.room_name \notin DOMAIN alerts_sent'

C14_Listing ==
    AnswersNow("list")
    => /\ {x.room_name : x \in rm_response'.sessions} = DOMAIN active_sessions
       /\ rm_response'.count = Cardinality(DOMAIN active_sessions)

\* C14: when end_session answers "ended" the room is no longer in
\* active_sessions; list_active_sessions lists exactly the rooms of
\* active_sessions; a lookup of a room that is not there fails with not
\* found; and the room stays out until a start_session registers that name.
C14_RoundTrip ==
    [][C14_EndRemoves /\ C14_Listing /\ UnknownLookupFails /\ OnlyStartRegisters]_vars

\* A registered session was ended and is gone from the registry.
C14_Witness ==
    /\ rm_request.op = "end"
    /\ rm_response.status = "ended"
    /\ rm_response.patient_id = "P1"
    /\ rm_request.room_name \notin DOMAIN active_sessions
    /\ rm_request.room_name \notin DOMAIN alerts_sent

\* C15: a start_session whose room name is already in active_sessions is
\* refused and leaves that session and its alert log as they were.
C15_NoOverwrite ==
    [][\A r \in RoomNames :
         (r \in DOMAIN active_sessions /\ AnswersLater("start")
          /\ rm_request'.room_name = r)
         => /\ rm_response'.status # "created"
            /\ active_sessions'[r] = active_sessions[r]
            /\ alerts_sent'[r] = alerts_sent[r]]_vars

C16_Prune ==
    (AnswersLater("status") /\ Get(rm_request', "list_rooms", PyNone) = "gone")
    => /\ rm_response' = [status |-> "ended"]
       /\ rm_request'.room_name \notin DOMAIN active_sessions'
       /\ rm_request'.room_name \notin DOMAIN alerts_sent'
       /\ \A r \in RoomNames \ {rm_request'.room_name} :
             /\ (r \in DOMAIN active_sessions) = (r \in DOMAIN active_sessions')
             /\ r \in DOMAIN active_sessions =>
                   /\ active_sessions'[r] = active_sessions[r]
                   /\ alerts_sent'[r] = alerts_sent[r]

C16_Later ==
    \A r \in RoomNames :
       (r \notin DOMAIN active_sessions /\ ReceivedFor(r))
       => NotFoundOutcome(rm_response')

\* C16: a status check whose list_rooms finds the room gone removes the
\* session and its alert log, and only those, and answers "ended"; from then
\* on every request for that room is answered not found, until a
\* start_session registers the name again.
C16_Reconcile == [][C16_Prune /\ C16_Later /\ OnlyStartRegisters]_vars

\* A session with a tracked alert was pruned by a status check.
C16_Witness ==
    /\ rm_request.op = "status"
    /\ Get(rm_request, "list_rooms", PyNone) = "gone"
    /\ rm_response = [status |-> "ended"]
    /\ rm_request.room_name \notin DOMAIN active_sessions
    /\ rm_request.room_name \notin DOMAIN alerts_sent
    /\ \E i \in DOMAIN twilio_log :
          twilio_log[i].room_name = rm_request.room_name /\ twilio_log[i].ok

----------------------------------------------------------------------------
(* Claims about the history of the triage agent *)

\* C17: the payload built for a turn has one entry per turn of the history,
\* in order; a turn with a filled reply carries that reply; and only the
\* last entry, the open turn, is given the empty assistant string in place
\* of a reply.
C17_PayloadShape ==
    [][(pc = "idle" /\ pc' = "classify")
       => LET h == session_state'.conversation_history
              text == turn'.payload.text
          IN /\ Len(text) = Len(h)
             /\ \A i \in DOMAIN h :
                   /\ text[i].human = h[i].human
                   /\ h[i].assistant # PyNone => text[i].assistant = h[i].assistant
             /\ \A i \in DOMAIN text :
                   (text[i].assistant = "" /\ h[i].assistant # "") => i = Len(text)]_vars

\* C19: while the session state is the same object the history only grows
\* at its end, a filled turn is never changed, and a turn that returns has
\* its reply stored on the last turn, the one created for its utterance.
C19_AppendOnly ==
    [][epoch' = epoch
       => /\ Len(history') >= Len(history)
          /\ \A i \in DOMAIN history :
                /\ history'[i].human = history[i].human
                /\ history[i].assistant # PyNone => history'[i] = history[i]
          /\ (pc # "idle" /\ pc' = "idle" /\ turn.session = epoch)
             => /\ Len(history') > 0
                /\ history'[Len(history')].human = turn.utterance
                /\ history'[Len(history')].assistant = returned']_vars

\* C20: a turn whose classification is usable and not CRITICAL or EMERGENCY
\* returns at once with the classifier's response (the default text when
\* the answer has none), stores it on the open turn of its session, calls
\* neither the council nor the SMS service and leaves is_emergency,
\* emergency_confirmed and council_response as they were.
C20_NotEmergency ==
    [][(/\ pc = "classify" /\ pc' # "classify"
        /\ turn'.classify # "malformed"
        /\ turn'.category \notin {"CRITICAL", "EMERGENCY"})
       => /\ pc' = "idle"
          /\ returned' = IF turn'.classifier_text # PyNone
                         THEN turn'.classifier_text ELSE TXT_NORMAL_DEFAULT
          /\ turn'.council_calls = 0
          /\ turn'.sms_calls = 0
          /\ sms_log' = sms_log
          /\ session_state'.is_emergency = session_state.is_emergency
          /\ session_state'.emergency_confirmed = session_state.emergency_confirmed
          /\ session_state'.council_response = session_state.council_response
          /\ turn.session = epoch
             => history'[Len(history')] =
                   [human |-> turn.utterance, assistant |-> returned']]_vars

\* An ordinary turn in a session whose emergency was confirmed earlier.
C20_Witness ==
    /\ pc = "idle"
    /\ turn.classify = "ok"
    /\ turn.category = "NORMAL"
    /\ returned = TXT_CLASSIFIER
    /\ session_state.is_emergency
    /\ session_state.emergency_confirmed
    /\ Len(history) = 2
    /\ history[2].assistant = TXT_CLASSIFIER

----------------------------------------------------------------------------
(* Claims about the image, the confidences and the alert numbers *)

current_image == session_state.current_image

C21_ImageStep ==
    current_image' # current_image
    => /\ tool_call' # tool_call
       /\ current_image' = tool_call'.image_base64
       /\ tool_call'.name = "set_patient_info" => tool_call'.image_base64 \notin {PyNone, ""}

C21_ReplaceStep ==
    (tool_call' # tool_call /\ tool_call'.name = "update_image")
    => current_image' = tool_call'.image_base64

C21_PayloadStep ==
    (pc = "idle" /\ pc' = "classify")
    => /\ "image" \in DOMAIN turn'.payload <=> current_image \notin {PyNone, ""}
       /\ "image" \in DOMAIN turn'.payload => turn'.payload.image = current_image
       /\ current_image' = current_image

\* C21: current_image changes only in an update_image call or in a
\* set_patient_info call that carries an image, and then to the image of
\* that call; the steps of a turn leave it alone; the payload built for a
\* turn has the image key exactly when an image is set, with that image.
C21_ImageCarried == [][C21_ImageStep /\ C21_ReplaceStep /\ C21_PayloadStep]_vars

\* An image set by update_image survived a set_patient_info call without
\* image and is in the payload of the turn in flight.
C21_Witness ==
    /\ pc = "council"
    /\ tool_call.name = "set_patient_info"
    /\ tool_call.image_base64 = PyNone
    /\ current_image = "image 2"
    /\ "image" \in DOMAIN turn.payload
    /\ turn.payload.image = "image 2"

\* C27: every confidence forwarded to the SMS service lies in [0, 1].
C27_ConfidenceInRange ==
    \A i \in DOMAIN sms_log : sms_log[i].confidence \in 0..100


\* The Twilio requests a step adds to twilio_log
NewAttempts == SubSeq(twilio_log', Len(twilio_log) + 1, Len(twilio_log'))

C22_Turn == turn.classify_calls <= 1 /\ turn.council_calls <= 1

C22_Alert ==
    /\ (AnswersNow("emergency-alert") /\ rm_response'.status = "alerts_triggered")
       => LET contacts == rm_request'.contacts
              ch == ChannelSeq(rm_request')
          IN /\ Len(NewAttempts) = Len(contacts) * Len(ch)
             /\ \A i \in DOMAIN contacts : \A k \in DOMAIN ch :
                   Cardinality({j \in DOMAIN NewAttempts :
                                  /\ NewAttempts[j].to = normalize_phone(contacts[i])
                                  /\ NewAttempts[j].type = ch[k]})
                   = Cardinality({i2 \in DOMAIN contacts :
                                    normalize_phone(contacts[i2])
                                       = normalize_phone(contacts[i])})
    /\ (AnswersNow("alert-sms") \/ AnswersNow("alert-call"))
       => Len(NewAttempts) <= 1

\* C22: a turn makes at most one classify request and at most one council
\* request, an emergency-alert call makes exactly one Twilio request per
\* contact and requested channel, and a single alert at most one: nothing
\* is tried again after a failure.
C22_SingleAttempt == []C22_Turn /\ [][C22_Alert]_vars

\* Twilio rejected every request of a call for two contacts on both
\* channels, and each was made once.
C22_Witness ==
    /\ rm_request.op = "emergency-alert"
    /\ rm_response.status = "alerts_triggered"
    /\ Len(rm_response.results) = 4
    /\ \A i \in 1..4 : rm_response.results[i].status = "failed"
    /\ Len(twilio_log) = 4

\* What a dict holds for a key
Entry(d, k) == IF k \in DOMAIN d THEN <<"some", d[k]>> ELSE <<"none">>

\* C23: a step changes the registry entry and the alert log of no room but
\* the one its request addresses, whatever requests on other rooms are
\* suspended around it.
C23_Independent ==
    [][\A r \in RoomNames :
         (\/ Entry(active_sessions', r) # Entry(active_sessions, r)
          \/ Entry(alerts_sent', r) # Entry(alerts_sent, r))
         => /\ "room_name" \in DOMAIN rm_request'
            /\ rm_request'.room_name = r
            /\ (rm_requests' # rm_requests \/ rm_pending' # rm_pending)]_vars

\* Two sessions, an alert to one of them, the other untouched.
C23_Witness ==
    /\ DOMAIN active_sessions = RoomNames
    /\ rm_request.op = "emergency-alert"
    /\ Len(alerts_sent[rm_request.room_name]) > 0
    /\ \E r \in RoomNames : r # rm_request.room_name /\ alerts_sent[r] = <<>>

\* C24: a join for an existing session with a role other than user and
\* doctor is answered 400 without a token; with one of the two roles it is
\* answered with a token for that room and role; the registry and the alert
\* logs stay as they are.
C24_JoinRole ==
    [][(AnswersNow("join") /\ rm_request'.room_name \in DOMAIN active_sessions)
       => /\ UNCHANGED <<active_sessions, alerts_sent>>
          /\ IF rm_request'.role \in {"user", "doctor"}
             THEN /\ rm_response'.status = "success"
                  /\ "token" \in DOMAIN rm_response'
                  /\ rm_response'.token.room = rm_request'.room_name
                  /\ rm_response'.role = rm_request'.role
             ELSE /\ rm_response'.status = "error"
                  /\ rm_response'.code = 400
                  /\ "token" \notin DOMAIN rm_response']_vars

C24_Witness ==
    /\ rm_request.op = "join"
    /\ rm_request.role = "nurse"
    /\ rm_request.room_name \in DOMAIN active_sessions
    /\ rm_response.status = "error"
    /\ rm_response.code = 400

\* A "+" and nothing but digits after it
CanonicalPhone(p) ==
    /\ Len(p) > 0
    /\ Head(p) = "+"
    /\ \A i \in 2..Len(p) : p[i] \in Digits

\* C25: for an input of digits, separators and an optional leading "+" the
\* normalized number is a "+" followed by digits only, and normalizing it
\* again returns it unchanged.
C25_Canonical ==
    phone_out # NoPhone
    => /\ CanonicalPhone(phone_out)
       /\ normalize_phone(phone_out) = phone_out

\* A contact that is no phone number even after normalization
Malformed(contact) == ~CanonicalPhone(normalize_phone(contact))

\* C26: an emergency-alert call makes no Twilio request for a malformed
\* contact and reports it failed, and makes the requests for the other
\* contacts.
C26_MalformedRejected ==
    [][(AnswersNow("emergency-alert") /\ rm_response'.status = "alerts_triggered")
       => LET contacts == rm_request'.contacts
              results == rm_response'.results
          IN \A i \in DOMAIN contacts :
                LET phone == normalize_phone(contacts[i]) IN
                IF Malformed(contacts[i])
                THEN /\ \A j \in DOMAIN NewAttempts : NewAttempts[j].to # phone
                     /\ \A j \in DOMAIN results :
                           results[j].phone = phone => results[j].status = "failed"
                ELSE \A k \in DOMAIN ChannelSeq(rm_request') :
                        \E j \in DOMAIN NewAttempts :
                           /\ NewAttempts[j].to = phone
                           /\ NewAttempts[j].type = ChannelSeq(rm_request')[k]]_vars

\* C28: the duration_seconds of an ended session is the number of seconds
\* between its started_at and the end call.
C28_Duration ==
    (rm_request.op = "end" /\ rm_response.status = "ended" /\ rm_request.registered)
    => rm_response.duration_seconds = rm_request.elapsed

C29_FailedEnd ==
    (AnswersLater("end") /\ rm_response'.status = "error")
    => UNCHANGED <<active_sessions, alerts_sent>>

C29_LaterEnd ==
    /\ AnswersNow("end") => rm_request'.room_name \notin DOMAIN active_sessions
    /\ (AnswersLater("end") /\ rm_response'.status # "error")
       => /\ rm_response'.status = "ended"
          /\ rm_request'.room_name \notin DOMAIN active_sessions'

\* C29: an end_session whose delete_room fails answers an error and leaves
\* the registry and the alert logs as they were; an end_session for a
\* registered room is never refused, and ends it when delete_room succeeds.
C29_EndFailureKeepsState == [][C29_FailedEnd /\ C29_LaterEnd]_vars

\* delete_room failed for a session that has alerts: both are still there.
C29_Witness ==
    /\ rm_request.op = "end"
    /\ rm_response.status = "error"
    /\ rm_request.room_name \in DOMAIN active_sessions
    /\ Len(alerts_sent[rm_request.room_name]) > 0

\* The first non-empty list of the request's, the session's and the
\* environment's numbers
FirstNonEmpty(lists) ==
    IF \E i \in DOMAIN lists : Len(lists[i]) > 0
    THEN lists[CHOOSE i \in DOMAIN lists :
                 /\ Len(lists[i]) > 0
                 /\ \A j \in 1..(i - 1) : Len(lists[j]) = 0]
    ELSE <<>>

C30_Step ==
    (AnswersNow("emergency-alert") /\ rm_request'.room_name \in DOMAIN active_sessions)
    => LET expected == FirstNonEmpty(<<rm_request'.phone_numbers,
                                       active_sessions[rm_request'.room_name].emergency_phones,
                                       env.default_phones>>)
           ch == ChannelSeq(rm_request')
       IN IF Len(expected) = 0
          THEN /\ rm_response'.status = "error"
               /\ rm_response'.code = 400
               /\ UNCHANGED <<twilio_log, alerts_sent>>
          ELSE (env.twilio_phone /\ env.twilio_creds)
               => /\ rm_response'.status = "alerts_triggered"
                  /\ Len(rm_response'.results) = Len(expected) * Len(ch)
                  /\ Len(NewAttempts) = Len(expected) * Len(ch)
                  /\ \A i \in DOMAIN expected : \A k \in DOMAIN ch :
                        LET n == (i - 1) * Len(ch) + k IN
                        /\ rm_response'.results[n].phone = normalize_phone(expected[i])
                        /\ NewAttempts[n].to = normalize_phone(expected[i])

\* C30: an emergency-alert call alerts the first non-empty list among the
\* request's phone_numbers, the session's emergency_phones and the numbers
\* of EMERGENCY_PHONE_NUMBERS; with all three empty it answers 400, makes no
\* Twilio request and leaves the alert log unchanged.
C30_ContactPrecedence == [][C30_Step]_vars

\* Neither the request nor the session names a contact: the default number
\* is alerted.
C30_Witness ==
    /\ rm_request.op = "emergency-alert"
    /\ rm_response.status = "alerts_triggered"
    /\ rm_request.phone_numbers = <<>>
    /\ active_sessions[rm_request.room_name].emergency_phones = <<>>
    /\ Len(rm_response.results) = 2
    /\ rm_response.results[1].phone = P_INTL
    /\ twilio_log[1].to = P_INTL

----------------------------------------------------------------------------
(* Claims about the two dicts of the room manager and the session state *)

\* C31: the rooms that have an alert log are the rooms of the registry, in
\* every state, so an append to the log of a registered room finds the log.
C31_LogPerSession == DOMAIN alerts_sent = DOMAIN active_sessions

\* A single SMS alert was appended to the log of its registered room.
C31_Witness ==
    /\ rm_request.op = "alert-sms"
    /\ rm_response.status = "sent"
    /\ rm_request.room_name \in DOMAIN active_sessions
    /\ Len(alerts_sent[rm_request.room_name]) = 1

\* C32: a status request whose LiveKit calls succeed is answered active,
\* ended or not_found, whatever happened to the room's registry entry while
\* it waited for the room listing.
C32_StatusResolves ==
    [][(/\ AnswersLater("status")
        /\ rm_request'.list_rooms # "error"
        /\ Get(rm_request', "list_participants", TRUE))
       => /\ rm_response'.status # "error"
          /\ rm_response'.status \in {"active", "ended", "not_found"}]_vars

\* C33: of the end_session requests suspended on one room only the one that
\* finds the session reports ended; one that resumes after the session is
\* gone reports not_found.
C33_OneEnded ==
    [][(/\ AnswersLater("end")
        /\ rm_request'.room_name \notin DOMAIN active_sessions)
       => rm_response'.status = "not_found"]_vars

IsPrefix(a, b) == Len(a) <= Len(b) /\ SubSeq(b, 1, Len(a)) = a

\* C34: across a step that leaves a session registered, the session's alert
\* log keeps every record it had, in order.
C34_LogGrows ==
    [][\A r \in RoomNames :
         (r \in DOMAIN active_sessions /\ r \in DOMAIN active_sessions')
         => /\ r \in DOMAIN alerts_sent'
            /\ IsPrefix(alerts_sent[r], alerts_sent'[r])]_vars

\* C35: between turns, a confirmed emergency is shown as an emergency.
C35_ConfirmedIsEmergency ==
    pc = "idle" => (session_state.emergency_confirmed => session_state.is_emergency)

\* C36: a turn of an ended session that is still in flight changes nothing
\* in the session state of the session that follows.
C36_FreshStateUntouched ==
    [][(pc # "idle" /\ turn.session # epoch /\ epoch' = epoch)
       => session_state' = session_state]_vars

----------------------------------------------------------------------------
(* Claims about the agent dispatcher and the note-taking agent *)

\* C37: every running agent process is the one registered in active_agents
\* under its room, so no room has two running processes.
C37_RunningIsTracked ==
    \A process \in DOMAIN processes :
       processes[process].status = "running"
       => /\ processes[process].room_name \in DOMAIN active_agents
          /\ active_agents[processes[process].room_name] = process

\* C38: a stop_agent_for_room call that found an agent tracked returns True,
\* with the process ended and the room out of active_agents.
C38_StopReturnsTrue ==
    [][\A call \in stop_calls :
         (\A later \in stop_calls' : later.id # call.id)
         => /\ disp_return'.op = "stop"
            /\ disp_return'.id = call.id
            /\ disp_return'.value = TRUE
            /\ call.room_name \notin DOMAIN active_agents'
            /\ processes'[call.process].status = "exited"]_vars

\* The entries of a list
Entries(buffer) == {buffer[i] : i \in DOMAIN buffer}

============================================================================
